---- MODULE Spec2Model ----
(***************************************************************************)
(* The filter / aggregation core of the OECD agricultural dashboard:       *)
(* front-end/src/utils/filter.ts and the grouping inside the TimeSeries    *)
(* component.  Every operation is modelled over a heap of JavaScript       *)
(* objects: the input array `data` holds the record objects, the           *)
(* operations allocate their own objects behind it, and a call returns     *)
(* its value (or throws) together with the input array as it left it.      *)
(***************************************************************************)
EXTENDS Integers, Sequences, FiniteSets, TLC

\* Longest record set the model enumerates.
MaxLen == 3

----------------------------------------------------------------------------
(* JavaScript values.  One shape for every value so that any two compare. *)

Num(n) == [t |-> "number", n |-> n, s |-> <<>>]
Str(s) == [t |-> "string", n |-> 0, s |-> s]
Null == [t |-> "null", n |-> 0, s |-> <<>>]
Undefined == [t |-> "undefined", n |-> 0, s |-> <<>>]
NaN == [t |-> "NaN", n |-> 0, s |-> <<>>]

\* a === b  (NaN is not equal to itself)
StrictEq(a, b) == a.t # "NaN" /\ a = b

\* ToNumber(v) for the values a parsed cell can hold: null is 0, undefined is NaN.
ToNumber(v) ==
  CASE v.t = "number" -> v
    [] v.t = "null" -> Num(0)
    [] OTHER -> NaN

\* a + b on numbers, null and undefined (entry.livestock += row.value).
JsAdd(a, b) ==
  LET x == ToNumber(a)
      y == ToNumber(b)
  IN IF x.t = "NaN" \/ y.t = "NaN" THEN NaN ELSE Num(x.n + y.n)

\* obj[f], undefined when the object has no such property.
GetField(obj, f) == IF f \in DOMAIN obj THEN obj[f] ELSE Undefined

\* obj[f] = v
SetField(obj, f, v) == [x \in DOMAIN obj \cup {f} |-> IF x = f THEN v ELSE obj[x]]

----------------------------------------------------------------------------
(* Strings are sequences of characters, so that toLowerCase and includes  *)
(* are computed and not assumed.                                           *)

UpperCase == <<"A","B","C","D","E","F","G","H","I","J","K","L","M","N","O","P","Q","R","S","T","U","V","W","X","Y","Z">>
LowerCase == <<"a","b","c","d","e","f","g","h","i","j","k","l","m","n","o","p","q","r","s","t","u","v","w","x","y","z">>

\* The lower-case letter of every upper-case letter.
LowerOf == [c \in {UpperCase[i] : i \in DOMAIN UpperCase} |->
              LowerCase[CHOOSE i \in DOMAIN UpperCase : UpperCase[i] = c]]

ToLowerChar(c) == IF c \in DOMAIN LowerOf THEN LowerOf[c] ELSE c

\* String.prototype.toLowerCase
ToLowerCase(s) == [i \in DOMAIN s |-> ToLowerChar(s[i])]

\* String.prototype.includes
Includes(s, sub) ==
  \E i \in 0..(Len(s) - Len(sub)) : SubSeq(s, i + 1, i + Len(sub)) = sub

\* The literals of the source.
ProtectionCoefficient == <<"P","r","o","d","u","c","e","r"," ","N","o","m","i","n","a","l"," ","P","r","o","t","e","c","t","i","o","n"," ","C","o","e","f","f","i","c","i","e","n","t">>
SurplusKeyword == <<"s","u","r","p","l","u","s">>
InputKeyword == <<"i","n","p","u","t">>
LivestockKeyword == <<"l","i","v","e","s","t","o","c","k">>

\* Measure labels of the data, in the mixed case the data source writes them.
LowerProtectionCoefficient == <<"p","r","o","d","u","c","e","r"," ","n","o","m","i","n","a","l"," ","p","r","o","t","e","c","t","i","o","n"," ","c","o","e","f","f","i","c","i","e","n","t">>
NutrientSurplusLabel == <<"N","u","t","r","i","e","n","t"," ","S","u","r","p","l","u","s">>
UpperSurplusLabel == <<"S","U","R","P","L","U","S">>
NitrogenInputLabel == <<"N","i","t","r","o","g","e","n"," ","I","n","p","u","t">>
LivestockUnitsLabel == <<"L","i","v","e","s","t","o","c","k"," ","U","n","i","t","s">>
LivestockFeedInputLabel == <<"L","i","v","e","s","t","o","c","k"," ","F","e","e","d"," ","I","n","p","u","t">>

----------------------------------------------------------------------------
(* Records: the fields of EnvData the core reads.  A cell the CSV leaves  *)
(* empty is null after parsing, so Measure, year and value may be Null.    *)

EnvData(c, m, nt, y, v) ==
  [country_code |-> c, Measure |-> m, nutrient_type |-> nt, year |-> y, value |-> v]

\* All sequences over S of length at most n.
SeqsUpTo(S, n) == UNION {[1..k -> S] : k \in 0..n}

VARIABLES
  data,   \* the record set the operations are called with
  op,     \* the operation called last ("none" before any call)
  args,   \* its criteria: [nutrient, year, selectedCountries]
  ret,    \* the value it returned (<<>> when it threw)
  threw   \* whether it raised an exception

vars == <<data, op, args, ret, threw>>

NoArgs == [nutrient |-> "", year |-> Null, selectedCountries |-> <<>>]

----------------------------------------------------------------------------
(* filter.ts                                                               *)

\* The comparison made on lower-cased strings.
IsProtectionCoefficientAnyCase(d) ==
  d.Measure.t = "string" /\ ToLowerCase(d.Measure.s) = ToLowerCase(ProtectionCoefficient)

\* d.Measure === "Producer Nominal Protection Coefficient"
IsProtectionCoefficient(d) == StrictEq(d.Measure, Str(ProtectionCoefficient))

\* .map((d) => ({country: d.country_code, year: d.year, value: d.value}))
ToTuple(d) == [country |-> d.country_code, year |-> d.year, value |-> d.value]

\* An access to the first record's Measure before filtering.
FirstRecordRead(R) ==
  IF R = <<>> THEN [threw |-> TRUE, out |-> <<>>, data |-> R]
  ELSE [threw |-> FALSE,
        out |-> [i \in DOMAIN SelectSeq(R, IsProtectionCoefficient) |->
                   ToTuple(SelectSeq(R, IsProtectionCoefficient)[i])],
        data |-> R]

filterProtectionCoefficient(R) ==
  LET filtered == SelectSeq(R, IsProtectionCoefficient)
  IN [threw |-> FALSE,
      out |-> [i \in DOMAIN filtered |-> ToTuple(filtered[i])],
      data |-> R]

(* A filter callback evaluates to "true", "false" or "throw": a && b && c  *)
(* stops at the first false operand, and d.Measure.toLowerCase() raises a  *)
(* TypeError when d.Measure is not a string.                               *)

Bool(b) == IF b THEN "true" ELSE "false"

\* a && b
AndThen(a, b) == IF a = "true" THEN b ELSE a

\* The label searched as it is written.
MeasureIncludesCaseSensitive(d, keyword) ==
  IF d.Measure.t # "string" THEN "throw"
  ELSE Bool(Includes(d.Measure.s, keyword))

\* d.Measure.toLowerCase().includes(keyword)
MeasureIncludes(d, keyword) ==
  IF d.Measure.t # "string" THEN "throw"
  ELSE Bool(Includes(ToLowerCase(d.Measure.s), keyword))

\* Array.prototype.filter over the objects at `addrs`, given what the callback
\* evaluates to on each: the kept addresses in order, or a throw as soon as the
\* callback throws.
Filter(addrs, verdict) ==
  [threw |-> \E i \in DOMAIN addrs : verdict[addrs[i]] = "throw",
   out |-> SelectSeq(addrs, LAMBDA a : verdict[a] = "true")]

Addresses(R) == [i \in DOMAIN R |-> i]
Deref(heap, addrs) == [i \in DOMAIN addrs |-> heap[addrs[i]]]

Thrown(R) == [threw |-> TRUE, out |-> <<>>, data |-> R]

\* d.year === year && d.nutrient_type === nutrient && d.Measure.toLowerCase().includes("surplus")
NutrientSurplusTest(d, nutrient, year) ==
  AndThen(Bool(StrictEq(d.year, year)),
    AndThen(Bool(d.nutrient_type = nutrient), MeasureIncludes(d, SurplusKeyword)))

getNutrientSurplusByCountry(R, nutrient, year) ==
  LET f == Filter(Addresses(R), [a \in DOMAIN R |-> NutrientSurplusTest(R[a], nutrient, year)])
  IN IF f.threw THEN Thrown(R)
     ELSE [threw |-> FALSE, out |-> Deref(R, f.out), data |-> R]

\* d.nutrient_type === nutrient && d.year === year && d.Measure.toLowerCase().includes("surplus")
GroupByMeasureTest(d, nutrient, year) ==
  AndThen(Bool(d.nutrient_type = nutrient),
    AndThen(Bool(StrictEq(d.year, year)), MeasureIncludes(d, SurplusKeyword)))

groupByMeasure(R, nutrient, year) ==
  LET f == Filter(Addresses(R), [a \in DOMAIN R |-> GroupByMeasureTest(R[a], nutrient, year)])
  IN IF f.threw THEN Thrown(R)
     ELSE [threw |-> FALSE, out |-> Deref(R, f.out), data |-> R]

\* d.nutrient_type === "Nitrogen" && d.Measure.toLowerCase().includes("input") && d.year === year
NitrogenInputTest(d, year) ==
  AndThen(Bool(d.nutrient_type = "Nitrogen"),
    AndThen(MeasureIncludes(d, InputKeyword), Bool(StrictEq(d.year, year))))

\* d.Measure.toLowerCase().includes("livestock") && d.year === year
LivestockTest(d, year) ==
  AndThen(MeasureIncludes(d, LivestockKeyword), Bool(StrictEq(d.year, year)))

(* A Map is its entries in insertion order, each a key and the address of *)
(* the object it holds.                                                    *)

MapHas(map, k) == \E i \in DOMAIN map : map[i].key = k

\* map.get(k): the address held under k, 0 for undefined.
MapGet(map, k) ==
  IF MapHas(map, k) THEN map[CHOOSE i \in DOMAIN map : map[i].key = k].ref ELSE 0

\* A set that moves a key already present to the end.
MapSetMovesKey(map, k, ref) ==
  Append(SelectSeq(map, LAMBDA e : e.key # k), [key |-> k, ref |-> ref])

\* map.set(k, ref): a key already present keeps its position.
MapSet(map, k, ref) ==
  IF MapHas(map, k)
  THEN [i \in DOMAIN map |-> IF map[i].key = k THEN [key |-> k, ref |-> ref] ELSE map[i]]
  ELSE Append(map, [key |-> k, ref |-> ref])

\* The row itself put in the map, with the two fields written on it.
SeedEntryInPlace(st, a) ==
  LET row == st.heap[a]
  IN [heap |-> [st.heap EXCEPT ![a] =
                  SetField(SetField(@, "nitrogen", row.value), "livestock", Num(0))],
      map |-> MapSet(st.map, row.country_code, a)]

\* map.set(row.country_code, {nitrogen: row.value, livestock: 0}) for the row at a
SeedEntry(st, a) ==
  LET row == st.heap[a]
      heap2 == Append(st.heap, [nitrogen |-> row.value, livestock |-> Num(0)])
  IN [heap |-> heap2, map |-> MapSet(st.map, row.country_code, Len(heap2))]

\* An outer join: a livestock row of a country without an entry makes one.
AccumulateLivestockOuter(st, a) ==
  LET row == st.heap[a]
      entry == MapGet(st.map, row.country_code)
      heap2 == Append(st.heap, [nitrogen |-> Num(0), livestock |-> row.value])
  IN IF entry = 0
     THEN [heap |-> heap2, map |-> Append(st.map, [key |-> row.country_code, ref |-> Len(heap2)])]
     ELSE [st EXCEPT !.heap[entry] =
             SetField(@, "livestock", JsAdd(GetField(@, "livestock"), row.value))]

\* The livestock field overwritten instead of added to.
AccumulateLivestockOverwrite(st, a) ==
  LET row == st.heap[a]
      entry == MapGet(st.map, row.country_code)
  IN IF entry = 0 THEN st
     ELSE [st EXCEPT !.heap[entry] = SetField(@, "livestock", row.value)]

\* const entry = map.get(row.country_code); if (entry) entry.livestock += row.value
AccumulateLivestock(st, a) ==
  LET row == st.heap[a]
      entry == MapGet(st.map, row.country_code)
  IN IF entry = 0 THEN st
     ELSE [st EXCEPT !.heap[entry] =
             SetField(@, "livestock", JsAdd(GetField(@, "livestock"), row.value))]

\* nitrogenInput.forEach((row) => { map.set(...) })
RECURSIVE SeedAll(_, _)
SeedAll(st, addrs) ==
  IF addrs = <<>> THEN st ELSE SeedAll(SeedEntry(st, Head(addrs)), Tail(addrs))

\* livestock.forEach((row) => { ... entry.livestock += row.value })
RECURSIVE AccumulateAll(_, _)
AccumulateAll(st, addrs) ==
  IF addrs = <<>> THEN st
  ELSE AccumulateAll(AccumulateLivestock(st, Head(addrs)), Tail(addrs))

\* ([country, values]) => ({country, ...values})
JoinedPair(country, values) ==
  [f \in {"country"} \cup DOMAIN values |->
     IF f \in DOMAIN values THEN values[f] ELSE country]

getScatterData(R, year) ==
  LET nitrogenInput == Filter(Addresses(R), [a \in DOMAIN R |-> NitrogenInputTest(R[a], year)])
      livestock == Filter(Addresses(R), [a \in DOMAIN R |-> LivestockTest(R[a], year)])
      seeded == SeedAll([heap |-> R, map |-> <<>>], nitrogenInput.out)
      joined == AccumulateAll(seeded, livestock.out)
  IN IF nitrogenInput.threw \/ livestock.threw THEN Thrown(R)
     ELSE [threw |-> FALSE,
           out |-> [i \in DOMAIN joined.map |->
                      JoinedPair(joined.map[i].key, joined.heap[joined.map[i].ref])],
           data |-> SubSeq(joined.heap, 1, Len(R))]

----------------------------------------------------------------------------
(* TimeSeries: the grouping of the selected countries' records by year.    *)

\* selectedCountries.includes(code)
ArrayIncludes(arr, x) == \E i \in DOMAIN arr : arr[i] = x

\* The filter without the test of the country.
AnyCountrySeriesTest(d, selectedCountries) == Bool(IsProtectionCoefficient(d))

\* d.Measure === "Producer Nominal Protection Coefficient" &&
\* selectedCountries.includes(d.country_code)
SelectedSeriesTest(d, selectedCountries) ==
  AndThen(Bool(IsProtectionCoefficient(d)),
          Bool(ArrayIncludes(selectedCountries, d.country_code)))

\* The property key grouped[d.year] uses: a number is used through its decimal
\* string (kept as the number), every other value through its name.
PropertyKey(v) ==
  CASE v.t = "number" -> v
    [] v.t = "string" -> v
    [] v.t = "null" -> Str(<<"n","u","l","l">>)
    [] v.t = "undefined" -> Str(<<"u","n","d","e","f","i","n","e","d">>)
    [] OTHER -> Str(<<"N","a","N">>)

\* if (!grouped[d.year]) grouped[d.year] = { year: d.year }
EnsureRow(st, d) ==
  LET k == PropertyKey(d.year)
      heap2 == Append(st.heap, [year |-> d.year])
  IN IF MapHas(st.map, k) THEN st
     ELSE [heap |-> heap2, map |-> Append(st.map, [key |-> k, ref |-> Len(heap2)])]

\* The field written only when the row does not have it yet.
AssignCountryOnce(st, d) ==
  LET row == MapGet(st.map, PropertyKey(d.year))
  IN IF d.country_code \in DOMAIN st.heap[row] THEN st
     ELSE [st EXCEPT !.heap[row] = SetField(@, d.country_code, d.value)]

\* grouped[d.year][d.country_code] = d.value
AssignCountry(st, d) ==
  LET row == MapGet(st.map, PropertyKey(d.year))
  IN [st EXCEPT !.heap[row] = SetField(@, d.country_code, d.value)]

\* filtered.forEach((d) => { ... })
RECURSIVE GroupAll(_, _)
GroupAll(st, addrs) ==
  IF addrs = <<>> THEN st
  ELSE LET d == st.heap[Head(addrs)]
       IN GroupAll(AssignCountry(EnsureRow(st, d), d), Tail(addrs))

\* A property key that is an array index (a non-negative integer).
IsArrayIndex(k) == k.t = "number" /\ k.n >= 0

RECURSIVE Ascending(_)
Ascending(S) ==
  IF S = {} THEN <<>>
  ELSE LET m == CHOOSE x \in S : \A y \in S : x <= y
       IN <<m>> \o Ascending(S \ {m})

\* Object.values(grouped): the rows under array-index keys in ascending key
\* order, then the rows under the other keys in insertion order.
ObjectValues(st) ==
  LET idx == Ascending({st.map[i].key.n : i \in {j \in DOMAIN st.map : IsArrayIndex(st.map[j].key)}})
      rest == SelectSeq(st.map, LAMBDA e : ~IsArrayIndex(e.key))
  IN [i \in DOMAIN idx |-> st.heap[MapGet(st.map, Num(idx[i]))]]
       \o [i \in DOMAIN rest |-> st.heap[rest[i].ref]]

\* The comparator with its operands exchanged: b.year - a.year.
CompareYearDescending(a, b) ==
  LET x == ToNumber(GetField(a, "year"))
      y == ToNumber(GetField(b, "year"))
  IN IF x.t = "NaN" \/ y.t = "NaN" THEN 0 ELSE y.n - x.n

\* (a, b) => a.year - b.year ; a NaN result counts as 0.
CompareYear(a, b) ==
  LET x == ToNumber(GetField(a, "year"))
      y == ToNumber(GetField(b, "year"))
  IN IF x.t = "NaN" \/ y.t = "NaN" THEN 0 ELSE x.n - y.n

RECURSIVE InsertRow(_, _)
InsertRow(sorted, x) ==
  IF sorted = <<>> THEN <<x>>
  ELSE IF CompareYear(Head(sorted), x) <= 0
       THEN <<Head(sorted)>> \o InsertRow(Tail(sorted), x)
       ELSE <<x>> \o sorted

\* Array.prototype.sort with the comparator above (a stable sort).
RECURSIVE SortByYear(_)
SortByYear(rows) ==
  IF rows = <<>> THEN <<>>
  ELSE InsertRow(SortByYear(SubSeq(rows, 1, Len(rows) - 1)), rows[Len(rows)])

\* The chart data TimeSeries builds from its props.
TimeSeries(R, selectedCountries) ==
  LET filtered == Filter(Addresses(R), [a \in DOMAIN R |-> SelectedSeriesTest(R[a], selectedCountries)])
      grouped == GroupAll([heap |-> R, map |-> <<>>], filtered.out)
  IN [threw |-> FALSE,
      out |-> SortByYear(ObjectValues(grouped)),
      data |-> SubSeq(grouped.heap, 1, Len(R))]

----------------------------------------------------------------------------
(* The criteria the operations are called with.                            *)

Countries == {"ARG", "BRA"}
Years == {Num(2000), Num(2001)}
Values == {Num(1), Num(2)}
Nutrients == {"Nitrogen", "Phosphorus"}
Selections == {<<>>, <<"ARG">>, <<"BRA">>, <<"ARG", "BRA">>}

(* The record sets.  Each specification draws its records from the labels *)
(* its operations tell apart.                                              *)

\* Protection-coefficient rows under both spellings of the label, a country
\* that is never selected, a row without a label, a row without a year and a
\* row of year 0 (the number a missing year is compared as).
SeriesRecords ==
  {EnvData(c, m, "Nitrogen", y, v) :
     c \in Countries, m \in {Str(ProtectionCoefficient), Str(LowerProtectionCoefficient)},
     y \in Years, v \in Values}
  \cup {EnvData("URY", Str(ProtectionCoefficient), "Nitrogen", Num(2000), Num(1)),
        EnvData("ARG", Null, "Nitrogen", Num(2000), Num(1)),
        EnvData("BRA", Str(ProtectionCoefficient), "Nitrogen", Null, Num(1)),
        EnvData("ARG", Str(ProtectionCoefficient), "Nitrogen", Num(0), Num(2))}

\* Surplus rows in mixed and upper case, rows of another measure and rows
\* without a label, for both nutrients and years.
SurplusRecords ==
  {EnvData("ARG", Str(m), n, y, Num(1)) :
     m \in {NutrientSurplusLabel, UpperSurplusLabel, NitrogenInputLabel},
     n \in Nutrients, y \in Years}
  \cup {EnvData("BRA", Str(NutrientSurplusLabel), "Nitrogen", Num(2000), Num(2)),
        EnvData("ARG", Null, "Nitrogen", Num(2000), Num(1)),
        EnvData("ARG", Null, "Phosphorus", Num(2001), Num(1))}

\* Nitrogen-input and livestock rows of one year, a row that is both, and rows
\* of another nutrient, another year or without a label.
ScatterRecords ==
  {EnvData(c, Str(m), "Nitrogen", Num(2000), v) :
     c \in Countries, m \in {NitrogenInputLabel, LivestockUnitsLabel}, v \in Values}
  \cup {EnvData("ARG", Str(LivestockFeedInputLabel), "Nitrogen", Num(2000), Num(1)),
        EnvData("ARG", Str(NitrogenInputLabel), "Phosphorus", Num(2000), Num(1)),
        EnvData("ARG", Str(NitrogenInputLabel), "Nitrogen", Num(2001), Num(1)),
        EnvData("ARG", Str(LivestockUnitsLabel), "Phosphorus", Num(2001), Num(2)),
        EnvData("BRA", Null, "Phosphorus", Num(2001), Num(1))}

\* A few rows of every kind, for the specification that calls every operation.
MixedRecords ==
  {EnvData("ARG", Str(ProtectionCoefficient), "Nitrogen", Num(2000), Num(1)),
   EnvData("BRA", Str(ProtectionCoefficient), "Nitrogen", Num(2001), Num(2)),
   EnvData("ARG", Str(NutrientSurplusLabel), "Nitrogen", Num(2000), Num(1)),
   EnvData("ARG", Str(NitrogenInputLabel), "Nitrogen", Num(2000), Num(1)),
   EnvData("BRA", Str(NitrogenInputLabel), "Nitrogen", Num(2000), Num(2)),
   EnvData("ARG", Str(LivestockUnitsLabel), "Nitrogen", Num(2000), Num(2)),
   EnvData("ARG", Null, "Nitrogen", Num(2000), Num(1)),
   EnvData("BRA", Str(LivestockUnitsLabel), "Phosphorus", Null, Null)}

----------------------------------------------------------------------------
(* One action per operation: the call, its result and the input array as   *)
(* the call left it.                                                       *)

Returns(name, a, r) ==
  /\ op' = name
  /\ args' = a
  /\ ret' = r.out
  /\ threw' = r.threw
  /\ data' = r.data

CallFilterProtectionCoefficient ==
  Returns("filterProtectionCoefficient", NoArgs, filterProtectionCoefficient(data))

CallGetNutrientSurplusByCountry ==
  \E n \in Nutrients, y \in Years :
    Returns("getNutrientSurplusByCountry", [NoArgs EXCEPT !.nutrient = n, !.year = y],
            getNutrientSurplusByCountry(data, n, y))

CallGroupByMeasure ==
  \E n \in Nutrients, y \in Years :
    Returns("groupByMeasure", [NoArgs EXCEPT !.nutrient = n, !.year = y],
            groupByMeasure(data, n, y))

CallGetScatterData ==
  \E y \in Years :
    Returns("getScatterData", [NoArgs EXCEPT !.year = y], getScatterData(data, y))

RenderTimeSeries ==
  \E sel \in Selections :
    Returns("TimeSeries", [NoArgs EXCEPT !.selectedCountries = sel], TimeSeries(data, sel))

InitWith(Records) ==
  /\ data \in SeqsUpTo(Records, MaxLen)
  /\ op = "none"
  /\ args = NoArgs
  /\ ret = <<>>
  /\ threw = FALSE

\* The protection-coefficient operations, each called once over
\* protection-coefficient data.
InitSeries == InitWith(SeriesRecords)
NextSeries ==
  \/ op = "none" /\ CallFilterProtectionCoefficient
  \/ op = "none" /\ RenderTimeSeries
SpecSeries == InitSeries /\ [][NextSeries]_vars

\* The surplus filters over surplus data.
InitSurplus == InitWith(SurplusRecords)
NextSurplus ==
  \/ op = "none" /\ CallGetNutrientSurplusByCountry
  \/ op = "none" /\ CallGroupByMeasure
SpecSurplus == InitSurplus /\ [][NextSurplus]_vars

\* The scatter join over nitrogen-input and livestock data.
InitScatter == InitWith(ScatterRecords)
NextScatter == op = "none" /\ CallGetScatterData
SpecScatter == InitScatter /\ [][NextScatter]_vars

\* Every operation of the core, called any number of times over one record set.
Init == InitWith(MixedRecords)
Next ==
  \/ CallFilterProtectionCoefficient
  \/ CallGetNutrientSurplusByCountry
  \/ CallGetScatterData
  \/ CallGroupByMeasure
  \/ RenderTimeSeries
Spec == Init /\ [][Next]_vars

----------------------------------------------------------------------------
(* The properties, and the sets of records they are stated with.           *)

\* The k-th smallest index of the index set M, and the subsequence of R at M.
NthOf(M, k) == CHOOSE i \in M : Cardinality({j \in M : j <= i}) = k
SubsequenceAt(R, M) == [k \in 1..Cardinality(M) |-> R[NthOf(M, k)]]

Max(M) == CHOOSE i \in M : \A j \in M : j <= i
Min(M) == CHOOSE i \in M : \A j \in M : i <= j

\* The measure label of d contains the keyword, whatever the case of either.
LabelContains(d, keyword) ==
  d.Measure.t = "string" /\ Includes(ToLowerCase(d.Measure.s), ToLowerCase(keyword))

\* The indices of the records of the protection-coefficient measure.
ProtectionRows == {i \in DOMAIN data : data[i].Measure = Str(ProtectionCoefficient)}

\* Those of country c and year y.
ProtectionRowsOf(c, y) ==
  {i \in ProtectionRows : data[i].country_code = c /\ data[i].year = y}

CountryCodes == {data[i].country_code : i \in DOMAIN data}
SelectedCodes == {args.selectedCountries[i] : i \in DOMAIN args.selectedCountries}

\* C1: filterProtectionCoefficient returns one {country, year, value} tuple per
\* record whose Measure is exactly "Producer Nominal Protection Coefficient",
\* in input order, carrying that record's fields, and nothing else.
C1_FilterByMeasure ==
  op = "filterProtectionCoefficient" =>
    /\ ~threw
    /\ Len(ret) = Cardinality(ProtectionRows)
    /\ ret = [k \in 1..Cardinality(ProtectionRows) |->
                LET d == data[NthOf(ProtectionRows, k)]
                IN [country |-> d.country_code, year |-> d.year, value |-> d.value]]

\* A call that kept two different records in order and dropped a record whose
\* label differs from the measure name by case only.
C1_Witness ==
  /\ op = "filterProtectionCoefficient"
  /\ Len(ret) = 2
  /\ ret[1] # ret[2]
  /\ \E i \in DOMAIN data : data[i].Measure = Str(LowerProtectionCoefficient)

\* C2: when several matching records of a selected country share a year, the
\* chart data has exactly one row for that year, and the row holds the value of
\* the last of them in input order in that country's field.
C2_LastOneWins ==
  op = "TimeSeries" =>
    \A c \in SelectedCodes : \A y \in {data[i].year : i \in DOMAIN data} :
      Cardinality(ProtectionRowsOf(c, y)) >= 2 =>
        /\ Cardinality({k \in DOMAIN ret : ret[k].year = y}) = 1
        /\ \A k \in DOMAIN ret :
             ret[k].year = y =>
               c \in DOMAIN ret[k] /\ ret[k][c] = data[Max(ProtectionRowsOf(c, y))].value

\* Two records of a selected country and one year whose values differ.
C2_Witness ==
  /\ op = "TimeSeries"
  /\ \E c \in SelectedCodes : \E y \in Years :
       /\ Cardinality(ProtectionRowsOf(c, y)) >= 2
       /\ data[Min(ProtectionRowsOf(c, y))].value # data[Max(ProtectionRowsOf(c, y))].value

\* C9: a row of the chart data has a field for country c exactly when c is
\* selected and a protection-coefficient record exists for c and the row's year;
\* every such record has its row, and no row exists without one.
C9_FieldPresence ==
  op = "TimeSeries" =>
    /\ \A k \in DOMAIN ret :
         /\ DOMAIN ret[k] \subseteq {"year"} \cup CountryCodes
         /\ \A c \in CountryCodes \cup SelectedCodes :
              c \in DOMAIN ret[k] <=>
                c \in SelectedCodes /\ ProtectionRowsOf(c, ret[k].year) # {}
         /\ \E c \in SelectedCodes : ProtectionRowsOf(c, ret[k].year) # {}
    /\ \A i \in ProtectionRows :
         data[i].country_code \in SelectedCodes =>
           \E k \in DOMAIN ret :
             ret[k].year = data[i].year /\ data[i].country_code \in DOMAIN ret[k]

\* A row with a field for one selected country and none for the other selected
\* country, nor for an unselected country that has a record for that year.
C9_Witness ==
  /\ op = "TimeSeries"
  /\ \E k \in DOMAIN ret : \E c1, c2 \in SelectedCodes : \E c3 \in CountryCodes \ SelectedCodes :
       /\ c1 \in DOMAIN ret[k]
       /\ c2 \notin DOMAIN ret[k]
       /\ c3 \notin DOMAIN ret[k]
       /\ ProtectionRowsOf(c3, ret[k].year) # {}
       /\ \E y \in Years : ProtectionRowsOf(c2, y) # {}

\* The nitrogen-input subset and the livestock subset of the scatter join:
\* the indices of the records of the year asked for, of nutrient "Nitrogen" and
\* a label containing "input", and those with a label containing "livestock".
NitrogenInputRows ==
  {i \in DOMAIN data :
     /\ data[i].nutrient_type = "Nitrogen"
     /\ LabelContains(data[i], InputKeyword)
     /\ data[i].year = args.year}

LivestockRows ==
  {i \in DOMAIN data : LabelContains(data[i], LivestockKeyword) /\ data[i].year = args.year}

NitrogenInputRowsOf(c) == {i \in NitrogenInputRows : data[i].country_code = c}
LivestockRowsOf(c) == {i \in LivestockRows : data[i].country_code = c}

\* The call returned a value.
Returned(name) == op = name /\ ~threw

\* The countries of the output.
OutputCountries == {ret[k].country : k \in DOMAIN ret}

\* The sum of the values of the records at the index set M.
RECURSIVE SumOfValues(_)
SumOfValues(M) ==
  IF M = {} THEN 0
  ELSE LET i == CHOOSE j \in M : TRUE
       IN data[i].value.n + SumOfValues(M \ {i})

\* C3: the output of getScatterData has an entry for a country exactly when the
\* country has a nitrogen-input record of that year; a country with livestock
\* records only never appears.
C3_LeftJoin ==
  Returned("getScatterData") =>
    /\ \A c \in CountryCodes : c \in OutputCountries <=> NitrogenInputRowsOf(c) # {}
    /\ OutputCountries \subseteq CountryCodes

\* One country joined, another with a livestock record of the year and no
\* nitrogen-input record left out.
C3_Witness ==
  /\ Returned("getScatterData")
  /\ ret # <<>>
  /\ \E c \in CountryCodes :
       LivestockRowsOf(c) # {} /\ NitrogenInputRowsOf(c) = {} /\ c \notin OutputCountries

\* C4: the livestock field of every entry of the output is the sum of the values
\* of the livestock records of that country and year, 0 when there is none.
C4_LivestockSum ==
  op = "getScatterData" =>
    \A k \in DOMAIN ret :
      ret[k].livestock = Num(SumOfValues(LivestockRowsOf(ret[k].country)))

\* An entry that sums two livestock records.
C4_Witness ==
  /\ op = "getScatterData"
  /\ \E k \in DOMAIN ret :
       /\ Cardinality(LivestockRowsOf(ret[k].country)) >= 2
       /\ ret[k].livestock.n > data[Max(LivestockRowsOf(ret[k].country))].value.n

\* The index at which each country of the nitrogen-input subset is first met.
FirstEncounters == {Min(NitrogenInputRowsOf(c)) : c \in {data[i].country_code : i \in NitrogenInputRows}}

\* C10: the output of getScatterData has one entry per country of the
\* nitrogen-input subset, in the order the countries are first met in the input;
\* an entry's nitrogen field is the value of the country's last nitrogen-input
\* record, and its livestock field is the sum of the country's livestock records
\* however many nitrogen-input records the country has.
C10_FirstEncounterOrder ==
  Returned("getScatterData") =>
    /\ Len(ret) = Cardinality(FirstEncounters)
    /\ \A k \in DOMAIN ret :
         LET c == data[NthOf(FirstEncounters, k)].country_code
         IN /\ DOMAIN ret[k] = {"country", "nitrogen", "livestock"}
            /\ ret[k].country = c
            /\ ret[k].nitrogen = data[Max(NitrogenInputRowsOf(c))].value
            /\ ret[k].livestock = Num(SumOfValues(LivestockRowsOf(c)))

\* The first country has a second nitrogen-input record, of another value, after
\* the second country's record, and a livestock record too.
C10_Witness ==
  /\ Returned("getScatterData")
  /\ Len(ret) = 2
  /\ LET c == ret[1].country
     IN /\ Max(NitrogenInputRowsOf(c)) > Max(NitrogenInputRowsOf(ret[2].country))
        /\ data[Min(NitrogenInputRowsOf(c))].value # data[Max(NitrogenInputRowsOf(c))].value
        /\ ret[1].livestock # Num(0)

\* The keyword as a caller may spell it.
SurplusSpellings == {<<"S","u","r","p","l","u","s">>, <<"s","u","r","p","l","u","s">>}

\* The records a nutrient/keyword filter is to select.
NutrientKeywordRows(keyword) ==
  {i \in DOMAIN data :
     /\ data[i].year = args.year
     /\ data[i].nutrient_type = args.nutrient
     /\ LabelContains(data[i], keyword)}

\* C5: getNutrientSurplusByCountry and groupByMeasure return, in input order,
\* exactly the records of the year and the nutrient asked for whose label
\* contains the keyword when both are lower-cased, so that the keyword spelt
\* "Surplus" and spelt "surplus" select the same records.
C5_CaseInsensitiveKeyword ==
  Returned("getNutrientSurplusByCountry") \/ Returned("groupByMeasure") =>
    \A keyword \in SurplusSpellings : ret = SubsequenceAt(data, NutrientKeywordRows(keyword))

\* A call that selected a mixed-case and an upper-case label and left a record out.
C5_Witness ==
  /\ Returned("getNutrientSurplusByCountry")
  /\ Len(ret) < Len(data)
  /\ \E k \in DOMAIN ret : ret[k].Measure = Str(NutrientSurplusLabel)
  /\ \E k \in DOMAIN ret : ret[k].Measure = Str(UpperSurplusLabel)

\* C6: no operation of the core raises an exception, whatever the records hold.
C6_NoOperationThrows == ~threw

\* What does hold of exceptions: only the three operations that lower-case the
\* label throw, and only over a record set with a record whose Measure is not a
\* string.
ThrowsOnlyOnNonStringMeasure ==
  threw =>
    /\ op \in {"getNutrientSurplusByCountry", "getScatterData", "groupByMeasure"}
    /\ \E i \in DOMAIN data : data[i].Measure.t # "string"

\* C7: given an empty record set every operation returns an empty sequence and
\* raises nothing, whatever the nutrient, the year and the selected countries.
C7_EmptyInput ==
  (op # "none" /\ data = <<>>) => (~threw /\ ret = <<>>)

\* The chart data built from no records with countries selected.
C7_Witness ==
  /\ op = "TimeSeries"
  /\ data = <<>>
  /\ args.selectedCountries # <<>>

\* C8: a call leaves the record set as it was, and a call repeated with the same
\* criteria ends as the call before it did, with an equal result.
C8_PureCalls ==
  [][/\ data' = data
     /\ (op' = op /\ args' = args) => (ret' = ret /\ threw' = threw)]_vars

\* A join that wrote a livestock sum into an object it holds.
C8_Witness ==
  /\ Returned("getScatterData")
  /\ \E k \in DOMAIN ret : ret[k].livestock # Num(0)

\* The years of the protection-coefficient records of the selected countries.
SelectedYears ==
  {data[i].year : i \in {j \in ProtectionRows : data[j].country_code \in SelectedCodes}}

\* A year as the number the rows are compared by: a missing year counts as 0.
YearNumber(y) == ToNumber(y).n

====
